---- MODULE Spec2Model ----
(***************************************************************************)
(* ElectricEye auditors: the run-scoped cache helpers, the Shodan          *)
(* credential resolver, the check generators of four auditor modules and   *)
(* the run loop that drives them.                                          *)
(*                                                                         *)
(* Python values are tagged records so that truthiness (`if response:`)    *)
(* is computed as Python computes it: None, "" and [] are falsy.           *)
(***************************************************************************)
EXTENDS Integers, Sequences, FiniteSets, TLC

VARIABLES
    category,   \* the registry category the target's traversal runs
    target,     \* position of the current target in the run's target list
    config,     \* external_providers.toml [global] + what the secret backend answers
    elb,        \* provider state behind the elasticloadbalancing checks
    ib,         \* provider state behind the imagebuilder checks
    secsvc,     \* provider state behind the security services checks
    m365,       \* tenant state behind the m365.aadusers checks
    cache,      \* the cache dict handed to every check of one traversal
    fetches,    \* how many times each underlying call ran in this traversal
    phase,      \* PENDING / ENUMERATING_CHECKS / RUNNING_CHECK / COMPLETE / FATAL / HELPERS
    checkIdx,   \* position in the category's registration order
    run,        \* which traversal of the target this is
    yielded,    \* the records the checks yielded in this traversal, in order
    failed,     \* the checks of this traversal that ended in an exception
    prevIds,    \* the finding Ids of the previous traversal
    attempted,  \* the checks of this traversal that ran to their end, in order
    clock,      \* datetime.utcnow(), one tick per check
    lastCall,   \* the last direct helper call: its name, return value and exception
    nCalls,     \* how many direct helper calls were made
    printed     \* the messages printed or logged so far, each a sequence of its parts

envVars == <<category, target, config, elb, ib, secsvc, m365>>
runVars == <<phase, checkIdx, run, yielded, failed, prevIds, attempted, clock>>
vars == <<category, target, config, elb, ib, secsvc, m365, cache, fetches, phase, checkIdx, run, yielded,
          failed, prevIds, attempted, clock, lastCall, nCalls, printed>>

---------------------------------------------------------------------------
(* Bounds *)
MaxLbs == 3
MaxItems == 2
MaxPages == 3
MaxRuns == 2
MaxCalls == 3
NumUuids == 2
MaxTargets == 2
MaxAnswers == 2

---------------------------------------------------------------------------
(* Python values *)
PyNone == [t |-> "None"]
PyStr(s) == [t |-> "str", s |-> s]
PyList(l) == [t |-> "list", l |-> l]

Truthy(x) ==
    CASE x.t = "None" -> FALSE
      [] x.t = "str"  -> x.s # ""
      [] x.t = "list" -> x.l # <<>>

(* `x is None` *)
IsNone(x) == x.t = "None"

(* dict.get(key): the stored value, or None when the key is absent *)
cache_get(c, k) == IF k \in DOMAIN c THEN c[k] ELSE PyNone

(* c[key] = value *)
cache_set(c, k, v) == [x \in (DOMAIN c) \cup {k} |-> IF x = k THEN v ELSE c[x]]

EmptyCache == [x \in {} |-> PyNone]

FetchNames == {"toml", "ssm.get_parameter", "asm.get_secret_value",
               "elb.describe_load_balancers", "oauth2/token", "graph/users"}

NoFetches == [n \in FetchNames |-> 0]

RECURSIVE Count(_, _)
Count(s, n) == IF s = <<>> THEN 0
               ELSE (IF Head(s) = n THEN 1 ELSE 0) + Count(Tail(s), n)

AddFetches(f, calls) == [n \in FetchNames |-> f[n] + Count(calls, n)]

(* What a helper call leaves behind: the cache, the value returned, the
   exception that left the function ("none" when it returned) and the
   underlying calls it made, in order. *)
Returned(c, v, calls) ==
    [cache |-> c, ret |-> v, exc |-> "none", calls |-> calls, printed |-> <<>>]
Raised(c, e, calls) ==
    [cache |-> c, ret |-> PyNone, exc |-> e, calls |-> calls, printed |-> <<>>]

---------------------------------------------------------------------------
(* Credential resolution: get_shodan_api_key *)
validCredLocations == {"AWS_SSM", "AWS_SECRETS_MANAGER", "CONFIG_FILE"}

SecretValue == "shodan-secret"

(* The exception a boto3 call raises for a backend outcome: a service error
   response is a botocore ClientError, a connection failure is not. *)
BackendException(outcome) ==
    CASE outcome = "AccessDenied"   -> "ClientError"
      [] outcome = "NotFound"       -> "ClientError"
      [] outcome = "NetworkFailure" -> "EndpointConnectionError"
      [] OTHER                      -> "none"

(* str(e) of the ClientError a failed lookup raises: the error code, the
   operation and the name the lookup was made for *)
ClientErrorText(cfg) ==
    <<"An error occurred (", cfg.backend, ") when calling the ",
      IF cfg.credentials_location = "AWS_SSM" THEN "GetParameter" ELSE "GetSecretValue",
      " operation: ", cfg.shodan_api_key_value>>

(* ssm.get_parameter / asm.get_secret_value inside their try blocks: the key,
   None after `except ClientError`, or the exception that is not caught. *)
BackendLookup(cfg) ==
    LET e == BackendException(cfg.backend) IN
    IF e = "none" THEN [exc |-> "none", apiKey |-> PyStr(SecretValue), printed |-> <<>>]
    ELSE IF e = "ClientError"
    THEN [exc |-> "none", apiKey |-> PyNone,
          printed |-> <<<<"Error retrieving API Key, skipping all Shodan checks, error: ">>
                        \o ClientErrorText(cfg)>>]
    ELSE [exc |-> e, apiKey |-> PyNone, printed |-> <<>>]

ResolveApiKeyNoEmptyCheck(cfg) ==
    IF cfg.credentials_location = "CONFIG_FILE"
    THEN [exc |-> "none", apiKey |-> PyStr(cfg.shodan_api_key_value), printed |-> <<>>]
    ELSE BackendLookup(cfg)

(* lines 63-95: the value of apiKey for a valid credentials_location *)
ResolveApiKey(cfg) ==
    IF ~Truthy(PyStr(cfg.shodan_api_key_value))
    THEN [exc |-> "none", apiKey |-> PyNone, printed |-> <<>>]
    ELSE IF cfg.credentials_location = "CONFIG_FILE"
    THEN [exc |-> "none", apiKey |-> PyStr(cfg.shodan_api_key_value), printed |-> <<>>]
    ELSE BackendLookup(cfg)

BackendCall(cfg) ==
    IF ~Truthy(PyStr(cfg.shodan_api_key_value)) THEN <<>>
    ELSE IF cfg.credentials_location = "AWS_SSM" THEN <<"ssm.get_parameter">>
    ELSE IF cfg.credentials_location = "AWS_SECRETS_MANAGER" THEN <<"asm.get_secret_value">>
    ELSE <<>>

get_shodan_api_key(c, cfg) ==
    LET response == cache_get(c, "get_shodan_api_key") IN
    IF Truthy(response) THEN Returned(c, response, <<>>)
    ELSE IF cfg.credentials_location \notin validCredLocations
    THEN [Raised(c, "SystemExit", <<"toml">>) EXCEPT !.printed =
            <<<<"Invalid option for [global.credLocation]. Must be one of ",
                "['AWS_SSM', 'AWS_SECRETS_MANAGER', 'CONFIG_FILE']", ".">>>>]
    ELSE LET r == ResolveApiKey(cfg)
             calls == <<"toml">> \o BackendCall(cfg) IN
         IF r.exc # "none" THEN Raised(c, r.exc, calls)
         ELSE LET c2 == cache_set(c, "get_shodan_api_key", r.apiKey) IN
              [Returned(c2, c2["get_shodan_api_key"], calls) EXCEPT !.printed = r.printed]

---------------------------------------------------------------------------
(* elasticloadbalancing: the listing helper *)
describe_clbs(c, e) ==
    LET response == cache_get(c, "describe_load_balancers") IN
    IF Truthy(response) THEN Returned(c, response, <<>>)
    ELSE IF e.listOutcome # "ok"
    THEN Raised(c, e.listOutcome, <<"elb.describe_load_balancers">>)
    ELSE LET c2 == cache_set(c, "describe_load_balancers", PyList(e.lbs)) IN
         Returned(c2, c2["describe_load_balancers"], <<"elb.describe_load_balancers">>)

---------------------------------------------------------------------------
(* The context every check is invoked with *)
TargetAt(t) == [awsAccountId |-> "00000000000" \o ToString(t),
                awsRegion |-> "us-east-" \o ToString(t),
                awsPartition |-> "aws", tenantId |-> "tenant-" \o ToString(t)]

Target == TargetAt(target)

(* A finding dict, reduced to the fields the properties read.  Every argument
   is the literal or the expression the yielding branch writes. *)
(* The keys a check writes into its finding dict, nested keys by their path.
   The Image Builder checks write "Compliance": {"Status": ...} alone. *)
FindingKeys(check) ==
    {"Id", "Severity.Label", "Compliance.Status", "Workflow.Status", "RecordState",
     "Resources.Type", "Resources.Id", "CreatedAt", "UpdatedAt", "Description",
     "Remediation.Recommendation.Text", "Remediation.Recommendation.Url"}
    \cup (IF check \in {"ImageBuilder.1", "ImageBuilder.2"}
          THEN {} ELSE {"Compliance.RelatedRequirements"})

Finding(check, id, generatorId, time, severity, compliance, workflow, recordState, resourceId) ==
    [check |-> check, Id |-> id, GeneratorId |-> generatorId,
     CreatedAt |-> time, UpdatedAt |-> time,
     Severity |-> severity, Compliance |-> compliance,
     Workflow |-> workflow, RecordState |-> recordState,
     ResourceId |-> resourceId, Keys |-> FindingKeys(check)]

(* One resumption of a generator body: the records it yields for one item and
   the exception raised while working on that item, if any. *)
Step(out, exc) == [out |-> out, exc |-> exc, msg |-> <<>>]
Skip == Step(<<>>, "none")
Yield(f) == Step(<<f>>, "none")
Raise(e) == Step(<<>>, e)
(* an exception raised with the text str(e) gives *)
RaiseWith(e, text) == [out |-> <<>>, exc |-> e, msg |-> text]

(* A generator consumed by a for loop: what was yielded before the first
   exception stays yielded. *)
RECURSIVE DrainCollected(_)
DrainCollected(steps) ==
    IF steps = <<>> THEN [yielded |-> <<>>, exc |-> "none", msg |-> <<>>]
    ELSE IF Head(steps).exc # "none"
    THEN [yielded |-> <<>>, exc |-> Head(steps).exc, msg |-> Head(steps).msg]
    ELSE LET r == DrainCollected(Tail(steps)) IN
         [yielded |-> IF r.exc = "none" THEN Head(steps).out \o r.yielded ELSE <<>>,
          exc |-> r.exc, msg |-> r.msg]

RECURSIVE Drain(_)
Drain(steps) ==
    IF steps = <<>> THEN [yielded |-> <<>>, exc |-> "none", msg |-> <<>>]
    ELSE IF Head(steps).exc # "none"
    THEN [yielded |-> Head(steps).out, exc |-> Head(steps).exc, msg |-> Head(steps).msg]
    ELSE LET r == Drain(Tail(steps)) IN
         [yielded |-> Head(steps).out \o r.yielded, exc |-> r.exc, msg |-> r.msg]

RECURSIVE Flatten(_)
Flatten(ss) == IF ss = <<>> THEN <<>> ELSE Head(ss) \o Flatten(Tail(ss))

(* What running a check to its end leaves behind *)
CheckDone(c, d, calls) ==
    [cache |-> c, yielded |-> d.yielded, exc |-> d.exc, calls |-> calls,
     msg |-> d.msg, printed |-> <<>>]
CheckRaised(c, e, calls) ==
    [cache |-> c, yielded |-> <<>>, exc |-> e, calls |-> calls,
     msg |-> <<>>, printed |-> <<>>]

---------------------------------------------------------------------------
(* elasticloadbalancing checks *)
clbArn(ctx, lb) == "arn:" \o ctx.awsPartition \o ":elasticloadbalancing:" \o ctx.awsRegion
                   \o ":" \o ctx.awsAccountId \o ":loadbalancer/" \o lb.LoadBalancerName

(* `listeners["Listener"]["Protocol"] != "HTTPS" or "SSL"`: the right operand
   of `or` is the non-empty string "SSL" *)
InsecureListener(protocol) == (protocol # "HTTPS") \/ Truthy(PyStr("SSL"))

ELB1Listener(ctx, time, lb, l) ==
    IF InsecureListener(l.Protocol)
    THEN Finding("ELB.1", clbArn(ctx, lb) \o "/classic-loadbalancer-secure-listener-check",
                 clbArn(ctx, lb), time, "MEDIUM", "FAILED", "NEW", "ACTIVE", clbArn(ctx, lb))
    ELSE Finding("ELB.1", clbArn(ctx, lb) \o "/classic-loadbalancer-secure-listener-check",
                 clbArn(ctx, lb), time, "INFORMATIONAL", "PASSED", "RESOLVED", "ARCHIVED",
                 clbArn(ctx, lb))

ELB1Lb(ctx, time, lb) ==
    IF lb.Scheme = "internet-facing"
    THEN Step([j \in 1..Len(lb.ListenerDescriptions) |->
                 ELB1Listener(ctx, time, lb, lb.ListenerDescriptions[j])], "none")
    ELSE Skip

internet_facing_clb_https_listener_check(c, e, ctx, time) ==
    LET r == describe_clbs(c, e) IN
    IF r.exc # "none" THEN CheckRaised(r.cache, r.exc, r.calls)
    ELSE CheckDone(r.cache,
                   Drain([i \in 1..Len(r.ret.l) |-> ELB1Lb(ctx, time, r.ret.l[i])]),
                   r.calls)

TLS12Policy == "ELBSecurityPolicy-TLS-1-2-2017-01"

ELB2Listener(ctx, time, lb, l) ==
    IF l.PolicyNames = {} THEN <<>>
    ELSE IF TLS12Policy \in l.PolicyNames
    THEN <<Finding("ELB.2", clbArn(ctx, lb) \o "/classic-loadbalancer-tls12-policy-check",
                   clbArn(ctx, lb), time, "INFORMATIONAL", "PASSED", "RESOLVED", "ARCHIVED",
                   clbArn(ctx, lb))>>
    ELSE <<Finding("ELB.2", clbArn(ctx, lb) \o "/classic-loadbalancer-tls12-policy-check",
                   clbArn(ctx, lb), time, "MEDIUM", "FAILED", "NEW", "ACTIVE",
                   clbArn(ctx, lb))>>

ELB2Lb(ctx, time, lb) ==
    Step(Flatten([j \in 1..Len(lb.ListenerDescriptions) |->
                    ELB2Listener(ctx, time, lb, lb.ListenerDescriptions[j])]), "none")

clb_https_listener_tls12_policy_check(c, e, ctx, time) ==
    LET r == describe_clbs(c, e) IN
    IF r.exc # "none" THEN CheckRaised(r.cache, r.exc, r.calls)
    ELSE CheckDone(r.cache,
                   Drain([i \in 1..Len(r.ret.l) |-> ELB2Lb(ctx, time, r.ret.l[i])]),
                   r.calls)

(* elb.describe_load_balancer_attributes(LoadBalancerName=clbName) for the
   i-th load balancer of the listing *)
describe_load_balancer_attributes(e, i) ==
    IF e.attrFailAt = i THEN [exc |-> "ClientError"] ELSE [exc |-> "none"]

(* ELB.3 without its else branch: nothing is yielded for a load balancer with
   cross-zone load balancing enabled *)
ELB3Lb_silent_when_enabled(e, ctx, time, i, lb) ==
    IF describe_load_balancer_attributes(e, i).exc # "none"
    THEN Raise(describe_load_balancer_attributes(e, i).exc)
    ELSE IF lb.CrossZoneLoadBalancing = FALSE
    THEN Yield(Finding("ELB.3", clbArn(ctx, lb) \o "/classic-loadbalancer-cross-zone-check",
                       clbArn(ctx, lb), time, "LOW", "FAILED", "NEW", "ACTIVE", clbArn(ctx, lb)))
    ELSE Skip

ELB3Lb(e, ctx, time, i, lb) ==
    IF describe_load_balancer_attributes(e, i).exc # "none"
    THEN Raise(describe_load_balancer_attributes(e, i).exc)
    ELSE IF lb.CrossZoneLoadBalancing = FALSE
    THEN Yield(Finding("ELB.3", clbArn(ctx, lb) \o "/classic-loadbalancer-cross-zone-check",
                       clbArn(ctx, lb), time, "LOW", "FAILED", "NEW", "ACTIVE", clbArn(ctx, lb)))
    ELSE Yield(Finding("ELB.3", clbArn(ctx, lb) \o "/classic-loadbalancer-cross-zone-check",
                       clbArn(ctx, lb), time, "INFORMATIONAL", "PASSED", "RESOLVED", "ARCHIVED",
                       clbArn(ctx, lb)))

clb_cross_zone_balancing_check(c, e, ctx, time) ==
    LET r == describe_clbs(c, e) IN
    IF r.exc # "none" THEN CheckRaised(r.cache, r.exc, r.calls)
    ELSE CheckDone(r.cache,
                   Drain([i \in 1..Len(r.ret.l) |-> ELB3Lb(e, ctx, time, i, r.ret.l[i])]),
                   r.calls)

ELB4Lb(e, ctx, time, i, lb) ==
    IF describe_load_balancer_attributes(e, i).exc # "none"
    THEN Raise(describe_load_balancer_attributes(e, i).exc)
    ELSE IF lb.ConnectionDraining = FALSE
    THEN Yield(Finding("ELB.4", clbArn(ctx, lb) \o "/classic-loadbalancer-connection-draining-check",
                       clbArn(ctx, lb), time, "LOW", "FAILED", "NEW", "ACTIVE", clbArn(ctx, lb)))
    ELSE Yield(Finding("ELB.4", clbArn(ctx, lb) \o "/classic-loadbalancer-connection-draining-check",
                       clbArn(ctx, lb), time, "INFORMATIONAL", "PASSED", "RESOLVED", "ARCHIVED",
                       clbArn(ctx, lb)))

clb_connection_draining_check(c, e, ctx, time) ==
    LET r == describe_clbs(c, e) IN
    IF r.exc # "none" THEN CheckRaised(r.cache, r.exc, r.calls)
    ELSE CheckDone(r.cache,
                   Drain([i \in 1..Len(r.ret.l) |-> ELB4Lb(e, ctx, time, i, r.ret.l[i])]),
                   r.calls)

ELB5Lb(e, ctx, time, i, lb) ==
    IF describe_load_balancer_attributes(e, i).exc # "none"
    THEN Raise(describe_load_balancer_attributes(e, i).exc)
    ELSE IF lb.AccessLog = FALSE
    THEN Yield(Finding("ELB.5", clbArn(ctx, lb) \o "/classic-loadbalancer-access-logging-check",
                       clbArn(ctx, lb), time, "MEDIUM", "FAILED", "NEW", "ACTIVE", clbArn(ctx, lb)))
    ELSE Yield(Finding("ELB.5", clbArn(ctx, lb) \o "/classic-loadbalancer-access-logging-check",
                       clbArn(ctx, lb), time, "INFORMATIONAL", "PASSED", "RESOLVED", "ARCHIVED",
                       clbArn(ctx, lb)))

clb_access_logging_check(c, e, ctx, time) ==
    LET r == describe_clbs(c, e) IN
    IF r.exc # "none" THEN CheckRaised(r.cache, r.exc, r.calls)
    ELSE CheckDone(r.cache,
                   Drain([i \in 1..Len(r.ret.l) |-> ELB5Lb(e, ctx, time, i, r.ret.l[i])]),
                   r.calls)

(* The "data" a DNS answer can carry, and what ipaddress.IPv4Address makes of
   them; the data of a CNAME answer is a name, not an address *)
AddrClass(a) ==
    CASE a = "52.1.2.3"       -> "public"
      [] a = "10.0.0.5"       -> "private"
      [] a = "127.0.0.1"      -> "loopback"
      [] a = "169.254.1.1"    -> "link_local"
      [] OTHER                -> "AddressValueError"

RECURSIVE FirstPublic(_)
FirstPublic(answers) ==
    IF answers = <<>> THEN PyNone
    ELSE IF AddrClass(Head(answers)) = "public" THEN PyStr(Head(answers))
    ELSE FirstPublic(Tail(answers))

(* google_dns_resolver(target), given the response dns.google returns for it *)
google_dns_resolver(resp) ==
    IF resp.error # "none" THEN [exc |-> resp.error, ret |-> PyNone]
    ELSE IF resp.status_code # 200 THEN [exc |-> "none", ret |-> PyNone]
    ELSE IF ~resp.hasAnswer THEN [exc |-> "KeyError", ret |-> PyNone]
    ELSE [exc |-> "none", ret |-> FirstPublic(resp.Answer)]

SHODAN_HOSTS_URL == "https://api.shodan.io/shodan/host/"

(* f"{SHODAN_HOSTS_URL}{clbIp}?key={shodanApiKey}" *)
ShodanUrl(clbIp, shodanApiKey) == <<SHODAN_HOSTS_URL, clbIp, "?key=", shodanApiKey>>

(* str(e) of the requests ConnectionError a failed GET raises: it names the
   url that was requested *)
ConnectionErrorText(url) == <<"Max retries exceeded with url: ">> \o url

ELB6Lb(shodanApiKey, ctx, time, lb) ==
    IF IsNone(shodanApiKey) THEN Skip
    ELSE IF lb.Scheme = "internet-facing"
    THEN LET clbIp == google_dns_resolver(lb.dns) IN
         IF clbIp.exc # "none" THEN Raise(clbIp.exc)
         ELSE IF IsNone(clbIp.ret) THEN Skip
         ELSE IF lb.shodan = "ConnectionError"
         THEN RaiseWith("ConnectionError", ConnectionErrorText(ShodanUrl(clbIp.ret.s, shodanApiKey.s)))
         ELSE IF lb.shodan = "No information available for that IP."
         THEN Yield(Finding("ELB.6",
                            clbArn(ctx, lb) \o "/" \o lb.DNSName \o "/classic-load-balancer-shodan-index-check",
                            clbArn(ctx, lb), time, "INFORMATIONAL", "PASSED", "RESOLVED", "ARCHIVED",
                            clbArn(ctx, lb)))
         ELSE Yield(Finding("ELB.6",
                            clbArn(ctx, lb) \o "/" \o lb.DNSName \o "/classic-load-balancer-shodan-index-check",
                            clbArn(ctx, lb), time, "MEDIUM", "FAILED", "NEW", "ACTIVE",
                            clbArn(ctx, lb)))
    ELSE Skip

public_clb_shodan_check(c, cfg, e, ctx, time) ==
    LET k == get_shodan_api_key(c, cfg) IN
    IF k.exc # "none"
    THEN [CheckRaised(k.cache, k.exc, k.calls) EXCEPT !.printed = k.printed]
    ELSE LET r == describe_clbs(k.cache, e) IN
         IF r.exc # "none"
         THEN [CheckRaised(r.cache, r.exc, k.calls \o r.calls) EXCEPT !.printed = k.printed]
         ELSE [CheckDone(r.cache,
                         Drain([i \in 1..Len(r.ret.l) |-> ELB6Lb(k.ret, ctx, time, r.ret.l[i])]),
                         k.calls \o r.calls) EXCEPT !.printed = k.printed]

---------------------------------------------------------------------------
(* imagebuilder checks: they read the module-level client and no cache *)
imagebuilder_pipeline_tests_enabled_step(time, p) ==
    IF p.imageTestsEnabled = TRUE
    THEN Yield(Finding("ImageBuilder.1", p.arn \o "/imagebuilder-pipeline-tests-enabled-check",
                       p.arn, time, "INFORMATIONAL", "PASSED", "RESOLVED", "ARCHIVED", p.arn))
    ELSE Yield(Finding("ImageBuilder.1", p.arn \o "/imagebuilder-pipeline-tests-enabled-check",
                       p.arn, time, "MEDIUM", "FAILED", "NEW", "ACTIVE", p.arn))

imagebuilder_pipeline_tests_enabled_check(c, b, time) ==
    IF b.listOutcome # "ok" THEN CheckRaised(c, b.listOutcome, <<>>)
    ELSE CheckDone(c,
                   Drain([i \in 1..Len(b.pipelines) |->
                            imagebuilder_pipeline_tests_enabled_step(time, b.pipelines[i])]),
                   <<>>)

(* recipe["imageRecipe"]["blockDeviceMappings"][0]["ebs"]["encrypted"] *)
imagebuilder_ebs_encryption_step(time, r) ==
    IF r.blockDeviceMappings = <<>> THEN Raise("IndexError")
    ELSE IF ~r.blockDeviceMappings[1].hasEbs THEN Raise("KeyError")
    ELSE IF r.blockDeviceMappings[1].encrypted = TRUE
    THEN Yield(Finding("ImageBuilder.2", r.arn \o "/imagebuilder-pipeline-tests-enabled-check",
                       r.arn, time, "INFORMATIONAL", "PASSED", "RESOLVED", "ARCHIVED", r.arn))
    ELSE Yield(Finding("ImageBuilder.2", r.arn \o "/imagebuilder-pipeline-tests-enabled-check",
                       r.arn, time, "MEDIUM", "FAILED", "NEW", "ACTIVE", r.arn))

imagebuilder_ebs_encryption_check(c, b, time) ==
    IF b.listOutcome # "ok" THEN CheckRaised(c, b.listOutcome, <<>>)
    ELSE CheckDone(c,
                   Drain([i \in 1..Len(b.recipes) |->
                            imagebuilder_ebs_encryption_step(time, b.recipes[i])]),
                   <<>>)

---------------------------------------------------------------------------
(* Security services checks: Auditor classes over module-level clients, region
   and account id *)
ImportTarget == 1

ImportContext == [awsAccountId |-> TargetAt(ImportTarget).awsAccountId,
                  awsRegion |-> TargetAt(ImportTarget).awsRegion]

AccountResource(g) == "AWS::::Account:" \o g.awsAccountId

iamAccessAnalyzerDetectorCheck_uuid_in_id(c, s, g, time, uuid) ==
    IF s.analyzersOutcome # "ok" THEN CheckRaised(c, s.analyzersOutcome, <<>>)
    ELSE IF s.analyzers = <<>>
    THEN CheckDone(c, Drain(<<Yield(
             Finding("SecSvcs.1", "uuid4-" \o ToString(uuid) \o "/security-services-iaa-enabled-check",
                     "uuid4-" \o ToString(uuid), time, "MEDIUM", "FAILED", "NEW", "ACTIVE",
                     AccountResource(g)))>>), <<>>)
    ELSE CheckDone(c, Drain(<<Yield(
             Finding("SecSvcs.1", "uuid4-" \o ToString(uuid) \o "/security-services-iaa-enabled-check",
                     "uuid4-" \o ToString(uuid), time, "INFORMATIONAL", "PASSED", "RESOLVED", "ARCHIVED",
                     AccountResource(g)))>>), <<>>)

iamAccessAnalyzerDetectorCheck(c, s, g, time, uuid) ==
    IF s.analyzersOutcome # "ok" THEN CheckRaised(c, s.analyzersOutcome, <<>>)
    ELSE IF s.analyzers = <<>>
    THEN CheckDone(c, Drain(<<Yield(
             Finding("SecSvcs.1", g.awsAccountId \o "/security-services-iaa-enabled-check",
                     "uuid4-" \o ToString(uuid), time, "MEDIUM", "FAILED", "NEW", "ACTIVE",
                     AccountResource(g)))>>), <<>>)
    ELSE CheckDone(c, Drain(<<Yield(
             Finding("SecSvcs.1", g.awsAccountId \o "/security-services-iaa-enabled-check",
                     "uuid4-" \o ToString(uuid), time, "INFORMATIONAL", "PASSED", "RESOLVED", "ARCHIVED",
                     AccountResource(g)))>>), <<>>)

GuardDutyDetectorCheck(c, s, g, time, uuid) ==
    IF s.detectorsOutcome # "ok" THEN CheckRaised(c, s.detectorsOutcome, <<>>)
    ELSE IF s.detectors = <<>>
    THEN CheckDone(c, Drain(<<Yield(
             Finding("SecSvcs.2", g.awsAccountId \o "/security-services-guardduty-enabled-check",
                     "uuid4-" \o ToString(uuid), time, "MEDIUM", "FAILED", "NEW", "ACTIVE",
                     AccountResource(g)))>>), <<>>)
    ELSE CheckDone(c, Drain(<<Yield(
             Finding("SecSvcs.2", g.awsAccountId \o "/security-services-guardduty-enabled-check",
                     "uuid4-" \o ToString(uuid), time, "INFORMATIONAL", "PASSED", "RESOLVED", "ARCHIVED",
                     AccountResource(g)))>>), <<>>)

(* the whole body sits in try / except Exception: print(e) *)
DetectiveGraphCheck(c, s, g, time, uuid) ==
    IF s.graphsOutcome # "ok" THEN CheckDone(c, Drain(<<>>), <<>>)
    ELSE IF s.graphs = <<>>
    THEN CheckDone(c, Drain(<<Yield(
             Finding("SecSvcs.3", g.awsAccountId \o "/security-services-detective-enabled-check",
                     "uuid4-" \o ToString(uuid), time, "MEDIUM", "FAILED", "NEW", "ACTIVE",
                     AccountResource(g)))>>), <<>>)
    ELSE CheckDone(c, Drain(<<Yield(
             Finding("SecSvcs.3", g.awsAccountId \o "/security-services-detective-enabled-check",
                     "uuid4-" \o ToString(uuid), time, "INFORMATIONAL", "PASSED", "RESOLVED", "ARCHIVED",
                     AccountResource(g)))>>), <<>>)

---------------------------------------------------------------------------
(* m365.aadusers: token, listing with pagination, enrichment *)
TokenValue == "oauth-token"

(* requests.post(tokenUrl): `raise r.reason` raises a str, which Python turns
   into a TypeError; nothing is written to the cache on that path *)
(* get_oauth_token storing the failed answer before it raises *)
get_oauth_token_caching_failure(c, m) ==
    LET response == cache_get(c, "get_oauth_token") IN
    IF Truthy(response) THEN Returned(c, response, <<>>)
    ELSE IF m.tokenStatus # 200
    THEN Raised(cache_set(c, "get_oauth_token", PyNone), "TypeError", <<"oauth2/token">>)
    ELSE LET c2 == cache_set(c, "get_oauth_token", PyStr(m.token)) IN
         Returned(c2, c2["get_oauth_token"], <<"oauth2/token">>)

get_oauth_token(c, m) ==
    LET response == cache_get(c, "get_oauth_token") IN
    IF Truthy(response) THEN Returned(c, response, <<>>)
    ELSE IF m.tokenStatus # 200 THEN Raised(c, "TypeError", <<"oauth2/token">>)
    ELSE LET c2 == cache_set(c, "get_oauth_token", PyStr(m.token)) IN
         Returned(c2, c2["get_oauth_token"], <<"oauth2/token">>)

(* A listing page carries "@odata.nextLink" exactly when a page follows it *)
HasNextLink(pages, i) == i < Len(pages)

(* The loop without the append that follows the if/else of lines 82-87: the
   users of a page that links to a further page are dropped *)
RECURSIVE PageLoop_dropping_linked_pages(_, _, _)
PageLoop_dropping_linked_pages(pages, i, userList) ==
    IF ~HasNextLink(pages, i) THEN userList
    ELSE LET listusers == pages[i + 1] IN
         IF HasNextLink(pages, i + 1)
         THEN PageLoop_dropping_linked_pages(pages, i + 1, userList)
         ELSE IF ~listusers.hasValue THEN userList
              ELSE userList \o listusers.value

(* The while loop of lines 80-90, entered with page i in listusers.  A page
   without "value", and the last page's missing "@odata.nextLink", raise the
   KeyError that line 91 catches. *)
RECURSIVE PageLoop(_, _, _)
PageLoop(pages, i, userList) ==
    IF ~HasNextLink(pages, i) THEN userList
    ELSE LET listusers == pages[i + 1] IN
         IF HasNextLink(pages, i + 1)
         THEN IF ~listusers.hasValue THEN userList
              ELSE PageLoop(pages, i + 1, userList \o listusers.value)
         ELSE IF ~listusers.hasValue THEN userList
              ELSE userList \o listusers.value

(* lines 71-92: userList after the try block *)
ListUsers(pages) ==
    IF ~pages[1].hasValue THEN <<>>
    ELSE PageLoop(pages, 1, pages[1].value)

get_identity_protection_risk_detections(m) ==
    IF m.riskDetectionsStatus # 200 THEN <<>> ELSE m.riskDetections

get_identity_protection_risky_users(m) ==
    IF m.riskyUsersStatus # 200 THEN <<>> ELSE m.riskyUsers

(* lines 119-141: the user with the Identity Protection fields attached *)
EnrichUser(m, user) ==
    LET riskDetections == get_identity_protection_risk_detections(m)
        riskyUsers == get_identity_protection_risky_users(m)
        mine == SelectSeq(riskDetections, LAMBDA r : r.userId = user.id)
        me == SelectSeq(riskyUsers, LAMBDA r : r.id = user.id)
    IN [id |-> user.id,
        identityProtectionRiskDetections |-> mine,
        identityProtectionRiskyUser |-> IF me # <<>> THEN <<me[1]>> ELSE <<>>,
        authenticationMethods |-> IF user.authStatus # 200 THEN <<>> ELSE user.methods]

(* lines 143-154: a user whose authentication-methods request does not return
   200 is not appended to enrichedUsers *)
RECURSIVE check_user_mfa_and_risk(_, _)
check_user_mfa_and_risk(m, users) ==
    IF users = <<>> THEN <<>>
    ELSE (IF Head(users).authStatus # 200 THEN <<>> ELSE <<EnrichUser(m, Head(users))>>)
         \o check_user_mfa_and_risk(m, Tail(users))

get_aad_users_with_enrichment(c, m) ==
    LET response == cache_get(c, "get_aad_users_with_enrichment") IN
    IF Truthy(response) THEN Returned(c, response, <<>>)
    ELSE LET t == get_oauth_token(c, m) IN
         IF t.exc # "none" THEN Raised(t.cache, t.exc, t.calls)
         ELSE LET userList == check_user_mfa_and_risk(m, ListUsers(m.pages))
                  c2 == cache_set(t.cache, "get_aad_users_with_enrichment", PyList(userList))
              IN Returned(c2, c2["get_aad_users_with_enrichment"],
                          t.calls \o <<"graph/users">>)

(* factor["@odata.type"].split("#microsoft.graph.")[1] *)
mfaType(odataType) ==
    CASE odataType = "#microsoft.graph.passwordAuthenticationMethod" -> "passwordAuthenticationMethod"
      [] odataType = "#microsoft.graph.fido2AuthenticationMethod" -> "fido2AuthenticationMethod"
      [] odataType = "#microsoft.graph.phoneAuthenticationMethod" -> "phoneAuthenticationMethod"
      [] odataType = "#microsoft.graph.microsoftAuthenticatorAuthenticationMethod"
            -> "microsoftAuthenticatorAuthenticationMethod"
      [] OTHER -> "unknown"

phishingResistantFactors == {"fido2AuthenticationMethod",
                             "microsoftAuthenticatorAuthenticationMethod",
                             "windowsHelloForBusinessAuthenticationMethod"}

UserResource(ctx, user) == ctx.tenantId \o "/" \o user.id

m365_aad_user_mfa_step_stale_workflow(ctx, time, user) ==
    IF Len(user.authenticationMethods) <= 1
    THEN Yield(Finding("M365.AadUser.1",
                       ctx.tenantId \o "/" \o user.id \o "/azure-ad-user-mfa-registered-check",
                       ctx.tenantId \o "/" \o user.id \o "/azure-ad-user-mfa-registered-check",
                       time, "HIGH", "FAILED", "RESOLVED", "ARCHIVED", UserResource(ctx, user)))
    ELSE Yield(Finding("M365.AadUser.1",
                       ctx.tenantId \o "/" \o user.id \o "/azure-ad-user-mfa-registered-check",
                       ctx.tenantId \o "/" \o user.id \o "/azure-ad-user-mfa-registered-check",
                       time, "INFORMATIONAL", "PASSED", "RESOLVED", "ARCHIVED",
                       UserResource(ctx, user)))

m365_aad_user_mfa_step(ctx, time, user) ==
    IF Len(user.authenticationMethods) <= 1
    THEN Yield(Finding("M365.AadUser.1",
                       ctx.tenantId \o "/" \o user.id \o "/azure-ad-user-mfa-registered-check",
                       ctx.tenantId \o "/" \o user.id \o "/azure-ad-user-mfa-registered-check",
                       time, "HIGH", "FAILED", "NEW", "ACTIVE", UserResource(ctx, user)))
    ELSE Yield(Finding("M365.AadUser.1",
                       ctx.tenantId \o "/" \o user.id \o "/azure-ad-user-mfa-registered-check",
                       ctx.tenantId \o "/" \o user.id \o "/azure-ad-user-mfa-registered-check",
                       time, "INFORMATIONAL", "PASSED", "RESOLVED", "ARCHIVED",
                       UserResource(ctx, user)))

m365_aad_user_mfa_check(c, m, ctx, time) ==
    LET r == get_aad_users_with_enrichment(c, m) IN
    IF r.exc # "none" THEN CheckRaised(r.cache, r.exc, r.calls)
    ELSE CheckDone(r.cache,
                   Drain([i \in 1..Len(r.ret.l) |-> m365_aad_user_mfa_step(ctx, time, r.ret.l[i])]),
                   r.calls)

m365_aad_user_phishing_resistant_mfa_step(ctx, time, user) ==
    LET userStrongMfa == SelectSeq(user.authenticationMethods,
                                   LAMBDA f : mfaType(f) \in phishingResistantFactors) IN
    IF userStrongMfa = <<>>
    THEN Yield(Finding("M365.AadUser.2",
                       ctx.tenantId \o "/" \o user.id \o "/azure-ad-user-phishing-resistant-mfa-registered-check",
                       ctx.tenantId \o "/" \o user.id \o "/azure-ad-user-phishing-resistant-mfa-registered-check",
                       time, "MEDIUM", "FAILED", "NEW", "ACTIVE", UserResource(ctx, user)))
    ELSE Yield(Finding("M365.AadUser.2",
                       ctx.tenantId \o "/" \o user.id \o "/azure-ad-user-phishing-resistant-mfa-registered-check",
                       ctx.tenantId \o "/" \o user.id \o "/azure-ad-user-phishing-resistant-mfa-registered-check",
                       time, "INFORMATIONAL", "PASSED", "RESOLVED", "ARCHIVED",
                       UserResource(ctx, user)))

m365_aad_user_phishing_resistant_mfa_check(c, m, ctx, time) ==
    LET r == get_aad_users_with_enrichment(c, m) IN
    IF r.exc # "none" THEN CheckRaised(r.cache, r.exc, r.calls)
    ELSE CheckDone(r.cache,
                   Drain([i \in 1..Len(r.ret.l) |->
                            m365_aad_user_phishing_resistant_mfa_step(ctx, time, r.ret.l[i])]),
                   r.calls)

triggeringRiskLevels == {"medium", "high", "hidden", "unknownFutureValue"}
triggeringRiskStates == {"atRisk", "confirmedCompromised", "unknownFutureValue"}

m365_aad_user_active_identity_protection_risk_detection_step(ctx, time, user) ==
    LET activeRiskDetections ==
            SelectSeq(user.identityProtectionRiskDetections,
                      LAMBDA risk : risk.riskLevel \in triggeringRiskLevels
                                    /\ risk.riskState \in triggeringRiskStates)
        severityLabel ==
            IF \E k \in 1..Len(activeRiskDetections) :
                   activeRiskDetections[k].riskState = "confirmedCompromised"
            THEN "CRITICAL" ELSE "HIGH"
    IN
    IF activeRiskDetections # <<>>
    THEN Yield(Finding("M365.AadUser.3",
                       ctx.tenantId \o "/" \o user.id \o "/azure-ad-user-identity-protection-risk-detections-check",
                       ctx.tenantId \o "/" \o user.id \o "/azure-ad-user-identity-protection-risk-detections-check",
                       time, severityLabel, "FAILED", "NEW", "ACTIVE", UserResource(ctx, user)))
    ELSE Yield(Finding("M365.AadUser.3",
                       ctx.tenantId \o "/" \o user.id \o "/azure-ad-user-identity-protection-risk-detections-check",
                       ctx.tenantId \o "/" \o user.id \o "/azure-ad-user-identity-protection-risk-detections-check",
                       time, "INFORMATIONAL", "PASSED", "RESOLVED", "ARCHIVED",
                       UserResource(ctx, user)))

m365_aad_user_active_identity_protection_risk_detection_check(c, m, ctx, time) ==
    LET r == get_aad_users_with_enrichment(c, m) IN
    IF r.exc # "none" THEN CheckRaised(r.cache, r.exc, r.calls)
    ELSE CheckDone(r.cache,
                   Drain([i \in 1..Len(r.ret.l) |->
                            m365_aad_user_active_identity_protection_risk_detection_step(
                                ctx, time, r.ret.l[i])]),
                   r.calls)

m365_aad_user_active_identity_protection_risky_user_step(ctx, time, user) ==
    LET ru == user.identityProtectionRiskyUser
        isRiskyUser == IF ru # <<>> THEN ru[1].riskState = "atRisk" ELSE FALSE
        severityLabel == IF ru # <<>> /\ ru[1].riskLevel = "high" THEN "HIGH"
                         ELSE IF ru # <<>> /\ ru[1].riskLevel = "medium" THEN "MEDIUM"
                         ELSE "LOW"
    IN
    IF isRiskyUser = TRUE
    THEN Yield(Finding("M365.AadUser.4",
                       ctx.tenantId \o "/" \o user.id \o "/azure-ad-user-identity-protection-risky-user-check",
                       ctx.tenantId \o "/" \o user.id \o "/azure-ad-user-identity-protection-risky-user-check",
                       time, severityLabel, "FAILED", "NEW", "ACTIVE", UserResource(ctx, user)))
    ELSE Yield(Finding("M365.AadUser.4",
                       ctx.tenantId \o "/" \o user.id \o "/azure-ad-user-identity-protection-risky-user-check",
                       ctx.tenantId \o "/" \o user.id \o "/azure-ad-user-identity-protection-risky-user-check",
                       time, "INFORMATIONAL", "PASSED", "RESOLVED", "ARCHIVED",
                       UserResource(ctx, user)))

m365_aad_user_active_identity_protection_risky_user_check(c, m, ctx, time) ==
    LET r == get_aad_users_with_enrichment(c, m) IN
    IF r.exc # "none" THEN CheckRaised(r.cache, r.exc, r.calls)
    ELSE CheckDone(r.cache,
                   Drain([i \in 1..Len(r.ret.l) |->
                            m365_aad_user_active_identity_protection_risky_user_step(
                                ctx, time, r.ret.l[i])]),
                   r.calls)

---------------------------------------------------------------------------
(* The environments a traversal can meet *)
SeqsUpTo(S, n) == UNION {[1..k -> S] : k \in 0..n}

LbProfiles == {
    [Scheme |-> "internet-facing",
     ListenerDescriptions |-> <<[Protocol |-> "HTTP", PolicyNames |-> {}]>>,
     CrossZoneLoadBalancing |-> FALSE, ConnectionDraining |-> FALSE, AccessLog |-> FALSE,
     dns |-> [error |-> "none", status_code |-> 200, hasAnswer |-> TRUE, Answer |-> <<"52.1.2.3">>],
     shodan |-> "indexed"],
    [Scheme |-> "internet-facing",
     ListenerDescriptions |-> <<[Protocol |-> "HTTPS", PolicyNames |-> {TLS12Policy}],
                                [Protocol |-> "SSL", PolicyNames |-> {"ELBSecurityPolicy-2016-08"}]>>,
     CrossZoneLoadBalancing |-> TRUE, ConnectionDraining |-> TRUE, AccessLog |-> TRUE,
     dns |-> [error |-> "none", status_code |-> 200, hasAnswer |-> TRUE, Answer |-> <<"10.0.0.5", "52.1.2.3">>],
     shodan |-> "No information available for that IP."],
    [Scheme |-> "internal",
     ListenerDescriptions |-> <<[Protocol |-> "TCP", PolicyNames |-> {}]>>,
     CrossZoneLoadBalancing |-> TRUE, ConnectionDraining |-> FALSE, AccessLog |-> TRUE,
     dns |-> [error |-> "none", status_code |-> 200, hasAnswer |-> TRUE, Answer |-> <<"10.0.0.5">>],
     shodan |-> "indexed"],
    [Scheme |-> "internet-facing",
     ListenerDescriptions |-> <<>>,
     CrossZoneLoadBalancing |-> FALSE, ConnectionDraining |-> TRUE, AccessLog |-> FALSE,
     dns |-> [error |-> "none", status_code |-> 500, hasAnswer |-> FALSE, Answer |-> <<>>],
     shodan |-> "indexed"] }

NamedLb(p, i) ==
    [LoadBalancerName |-> "clb-" \o ToString(i),
     DNSName |-> "clb-" \o ToString(i) \o ".elb.amazonaws.com",
     Scheme |-> p.Scheme, ListenerDescriptions |-> p.ListenerDescriptions,
     CrossZoneLoadBalancing |-> p.CrossZoneLoadBalancing,
     ConnectionDraining |-> p.ConnectionDraining, AccessLog |-> p.AccessLog,
     dns |-> p.dns, shodan |-> p.shodan]

ElbState(ps, outcome, failAt) ==
    [lbs |-> [i \in 1..Len(ps) |-> NamedLb(ps[i], i)],
     listOutcome |-> outcome, attrFailAt |-> failAt]

HealthyElbStates == {ElbState(ps, "ok", 0) : ps \in SeqsUpTo(LbProfiles, MaxLbs)}

FailingElbStates ==
    UNION {{ElbState(ps, "ClientError", 0)} \cup {ElbState(ps, "ok", k) : k \in 1..Len(ps)}
           : ps \in SeqsUpTo(LbProfiles, MaxLbs)}

DefaultElb == ElbState(<<>>, "ok", 0)

(* A public load balancer met while the Shodan API cannot be reached: the GET
   of its host record raises requests.exceptions.ConnectionError *)
ShodanUnreachableLb ==
    [Scheme |-> "internet-facing",
     ListenerDescriptions |-> <<[Protocol |-> "HTTPS", PolicyNames |-> {TLS12Policy}]>>,
     CrossZoneLoadBalancing |-> TRUE, ConnectionDraining |-> TRUE, AccessLog |-> TRUE,
     dns |-> [error |-> "none", status_code |-> 200, hasAnswer |-> TRUE, Answer |-> <<"52.1.2.3">>],
     shodan |-> "ConnectionError"]

ShodanUnreachableElbStates ==
    {ElbState(ps \o <<ShodanUnreachableLb>>, "ok", 0) : ps \in SeqsUpTo(LbProfiles, 1)}

RemoteLocations == {"AWS_SSM", "AWS_SECRETS_MANAGER"}
BackendErrors == {"AccessDenied", "NotFound", "NetworkFailure"}

Config(loc, value, backend) ==
    [credentials_location |-> loc, shodan_api_key_value |-> value, backend |-> backend]

Configs ==
    {Config("CONFIG_FILE", v, "ok") : v \in {"", SecretValue}}
    \cup {Config("AZURE_KEY_VAULT", v, "ok") : v \in {"", "shodan-key-locator"}}
    \cup {Config(loc, "", "ok") : loc \in RemoteLocations}
    \cup {Config(loc, "shodan-key-locator", b) : loc \in RemoteLocations,
                                                 b \in {"ok"} \cup BackendErrors}

DefaultConfig == Config("CONFIG_FILE", SecretValue, "ok")

(* The configurations under which a key is resolved *)
KeyedConfigs ==
    {DefaultConfig} \cup {Config(loc, "shodan-key-locator", "ok") : loc \in RemoteLocations}

Pipelines == {[imageTestsEnabled |-> b] : b \in BOOLEAN}

Recipes == {[blockDeviceMappings |-> <<>>],
            [blockDeviceMappings |-> <<[hasEbs |-> FALSE, encrypted |-> FALSE]>>],
            [blockDeviceMappings |-> <<[hasEbs |-> TRUE, encrypted |-> FALSE]>>],
            [blockDeviceMappings |-> <<[hasEbs |-> TRUE, encrypted |-> TRUE]>>]}

IbState(ps, rs, outcome) ==
    [pipelines |-> [i \in 1..Len(ps) |->
                      [arn |-> "image-pipeline/" \o ToString(i),
                       imageTestsEnabled |-> ps[i].imageTestsEnabled]],
     recipes |-> [i \in 1..Len(rs) |->
                    [arn |-> "image-recipe/" \o ToString(i),
                     blockDeviceMappings |-> rs[i].blockDeviceMappings]],
     listOutcome |-> outcome]

IbStates == {IbState(ps, rs, o) : ps \in SeqsUpTo(Pipelines, MaxItems),
                                  rs \in SeqsUpTo(Recipes, MaxItems),
                                  o \in {"ok", "ClientError"}}

DefaultIb == IbState(<<>>, <<>>, "ok")

Listings == {<<>>, <<"one">>}
Outcomes == {"ok", "ClientError"}

SecSvcStates ==
    [analyzers : Listings, analyzersOutcome : Outcomes,
     detectors : Listings, detectorsOutcome : Outcomes,
     graphs : Listings, graphsOutcome : Outcomes]

DefaultSecSvc == [analyzers |-> <<>>, analyzersOutcome |-> "ok",
                  detectors |-> <<>>, detectorsOutcome |-> "ok",
                  graphs |-> <<>>, graphsOutcome |-> "ok"]

(* Five kinds of directory user; the user with number i is of kind
   (i + shift) mod 5 *)
UserKinds == <<
    [authStatus |-> 200,
     methods |-> <<"#microsoft.graph.passwordAuthenticationMethod">>,
     detections |-> <<>>, risky |-> <<>>],
    [authStatus |-> 200,
     methods |-> <<"#microsoft.graph.passwordAuthenticationMethod",
                   "#microsoft.graph.fido2AuthenticationMethod">>,
     detections |-> <<[riskLevel |-> "high", riskState |-> "atRisk"]>>,
     risky |-> <<[riskState |-> "atRisk", riskLevel |-> "high"]>>],
    [authStatus |-> 403,
     methods |-> <<>>,
     detections |-> <<[riskLevel |-> "medium", riskState |-> "confirmedCompromised"]>>,
     risky |-> <<[riskState |-> "remediated", riskLevel |-> "medium"]>>],
    [authStatus |-> 200,
     methods |-> <<"#microsoft.graph.passwordAuthenticationMethod",
                   "#microsoft.graph.phoneAuthenticationMethod">>,
     detections |-> <<[riskLevel |-> "low", riskState |-> "atRisk"],
                      [riskLevel |-> "medium", riskState |-> "confirmedCompromised"]>>,
     risky |-> <<[riskState |-> "atRisk", riskLevel |-> "low"]>>],
    [authStatus |-> 200,
     methods |-> <<"#microsoft.graph.passwordAuthenticationMethod",
                   "#microsoft.graph.microsoftAuthenticatorAuthenticationMethod">>,
     detections |-> <<[riskLevel |-> "hidden", riskState |-> "atRisk"],
                      [riskLevel |-> "high", riskState |-> "remediated"]>>,
     risky |-> <<>>] >>

UserKind(i, shift) == UserKinds[((i + shift) % Len(UserKinds)) + 1]

UserId(i) == "user-" \o ToString(i)

DirectoryUser(i, shift) ==
    [id |-> UserId(i), authStatus |-> UserKind(i, shift).authStatus,
     methods |-> UserKind(i, shift).methods]

PageKinds == {"novalue", "empty", "one", "two"}

PageSize(kind) == CASE kind = "one" -> 1 [] kind = "two" -> 2 [] OTHER -> 0

RECURSIVE BuildPages(_, _, _)
BuildPages(kinds, first, shift) ==
    IF kinds = <<>> THEN <<>>
    ELSE <<[hasValue |-> Head(kinds) # "novalue",
            value |-> [j \in 1..PageSize(Head(kinds)) |-> DirectoryUser(first + j - 1, shift)]]>>
         \o BuildPages(Tail(kinds), first + PageSize(Head(kinds)), shift)

RECURSIVE TotalUsers(_)
TotalUsers(kinds) == IF kinds = <<>> THEN 0 ELSE PageSize(Head(kinds)) + TotalUsers(Tail(kinds))

M365State(kinds, shift, tokenStatus, rdStatus, ruStatus) ==
    LET n == TotalUsers(kinds) IN
    [pages |-> BuildPages(kinds, 1, shift),
     token |-> TokenValue,
     tokenStatus |-> tokenStatus,
     riskDetectionsStatus |-> rdStatus,
     riskDetections |-> Flatten([i \in 1..n |->
                          [k \in 1..Len(UserKind(i, shift).detections) |->
                             [userId |-> UserId(i),
                              riskLevel |-> UserKind(i, shift).detections[k].riskLevel,
                              riskState |-> UserKind(i, shift).detections[k].riskState]]]),
     riskyUsersStatus |-> ruStatus,
     riskyUsers |-> Flatten([i \in 1..n |->
                      [k \in 1..Len(UserKind(i, shift).risky) |->
                         [id |-> UserId(i),
                          riskLevel |-> UserKind(i, shift).risky[k].riskLevel,
                          riskState |-> UserKind(i, shift).risky[k].riskState]]])]

HttpStatuses == {200, 403}

(* Every chain shorter than MaxPages under every answer of the other
   endpoints, and the chains of MaxPages pages with those endpoints healthy *)
M365States ==
    {M365State(kinds, shift, t, rd, ru) :
        kinds \in SeqsUpTo(PageKinds, MaxPages - 1) \ {<<>>},
        shift \in 0..(Len(UserKinds) - 1),
        t \in HttpStatuses, rd \in HttpStatuses, ru \in HttpStatuses}
    \cup {M365State(kinds, 0, 200, 200, 200) : kinds \in [1..MaxPages -> PageKinds]}

DefaultM365 == M365State(<<"empty">>, 0, 200, 200, 200)

---------------------------------------------------------------------------
(* What the provider answers for each target.  The state variables hold the
   answers for the first target; another account/region or tenant holds
   resources of the same shape under its own names. *)
ElbOf(e, t) ==
    IF t = 1 THEN e
    ELSE [e EXCEPT !.lbs = [i \in 1..Len(e.lbs) |->
            [e.lbs[i] EXCEPT !.LoadBalancerName = TargetAt(t).awsRegion \o "-" \o @,
                             !.DNSName = TargetAt(t).awsRegion \o "-" \o @]]]

IbOf(b, t) ==
    IF t = 1 THEN b
    ELSE [b EXCEPT !.pipelines = [i \in 1..Len(b.pipelines) |->
                     [b.pipelines[i] EXCEPT !.arn = TargetAt(t).awsRegion \o ":" \o @]],
                   !.recipes = [i \in 1..Len(b.recipes) |->
                     [b.recipes[i] EXCEPT !.arn = TargetAt(t).awsRegion \o ":" \o @]]]

M365Of(m, t) ==
    IF t = 1 THEN m
    ELSE LET Of(id) == id \o "@" \o TargetAt(t).tenantId IN
         [m EXCEPT !.token = Of(@),
                   !.pages = [i \in 1..Len(m.pages) |->
                       [m.pages[i] EXCEPT !.value = [j \in 1..Len(m.pages[i].value) |->
                           [m.pages[i].value[j] EXCEPT !.id = Of(@)]]]],
                   !.riskDetections = [i \in 1..Len(m.riskDetections) |->
                       [m.riskDetections[i] EXCEPT !.userId = Of(@)]],
                   !.riskyUsers = [i \in 1..Len(m.riskyUsers) |->
                       [m.riskyUsers[i] EXCEPT !.id = Of(@)]]]

---------------------------------------------------------------------------
(* The registry: the checks of each category, in registration order *)
Categories == {"elasticloadbalancing", "imagebuilder", "securityservices", "m365.aadusers"}

NumChecks(cat) ==
    CASE cat = "elasticloadbalancing" -> 6
      [] cat = "imagebuilder"         -> 2
      [] cat = "securityservices"     -> 3
      [] cat = "m365.aadusers"        -> 4

(* The i-th registered check of the category, run to its end against the
   environment with cache c, clock reading time and uuid4() value uuid *)
RunRegisteredCheck(cat, i, c, time, uuid) ==
    CASE cat = "elasticloadbalancing" /\ i = 1 ->
            internet_facing_clb_https_listener_check(c, ElbOf(elb, target), Target, time)
      [] cat = "elasticloadbalancing" /\ i = 2 ->
            clb_https_listener_tls12_policy_check(c, ElbOf(elb, target), Target, time)
      [] cat = "elasticloadbalancing" /\ i = 3 ->
            clb_cross_zone_balancing_check(c, ElbOf(elb, target), Target, time)
      [] cat = "elasticloadbalancing" /\ i = 4 ->
            clb_connection_draining_check(c, ElbOf(elb, target), Target, time)
      [] cat = "elasticloadbalancing" /\ i = 5 ->
            clb_access_logging_check(c, ElbOf(elb, target), Target, time)
      [] cat = "elasticloadbalancing" /\ i = 6 ->
            public_clb_shodan_check(c, config, ElbOf(elb, target), Target, time)
      [] cat = "imagebuilder" /\ i = 1 ->
            imagebuilder_pipeline_tests_enabled_check(c, IbOf(ib, ImportTarget), time)
      [] cat = "imagebuilder" /\ i = 2 ->
            imagebuilder_ebs_encryption_check(c, IbOf(ib, ImportTarget), time)
      [] cat = "securityservices" /\ i = 1 ->
            iamAccessAnalyzerDetectorCheck(c, secsvc, ImportContext, time, uuid)
      [] cat = "securityservices" /\ i = 2 ->
            GuardDutyDetectorCheck(c, secsvc, ImportContext, time, uuid)
      [] cat = "securityservices" /\ i = 3 ->
            DetectiveGraphCheck(c, secsvc, ImportContext, time, uuid)
      [] cat = "m365.aadusers" /\ i = 1 ->
            m365_aad_user_mfa_check(c, M365Of(m365, target), Target, time)
      [] cat = "m365.aadusers" /\ i = 2 ->
            m365_aad_user_phishing_resistant_mfa_check(c, M365Of(m365, target), Target, time)
      [] cat = "m365.aadusers" /\ i = 3 ->
            m365_aad_user_active_identity_protection_risk_detection_check(c, M365Of(m365, target), Target, time)
      [] cat = "m365.aadusers" /\ i = 4 ->
            m365_aad_user_active_identity_protection_risky_user_check(c, M365Of(m365, target), Target, time)

Ids(findings) == {findings[k].Id : k \in 1..Len(findings)}

---------------------------------------------------------------------------
(* The run loop *)
InitEnv ==
    /\ category \in Categories
    /\ target = 1
    /\ \/ /\ category = "elasticloadbalancing"
          /\ \/ config \in Configs /\ elb \in HealthyElbStates
             \/ config = DefaultConfig /\ elb \in FailingElbStates
             \/ config \in KeyedConfigs /\ elb \in ShodanUnreachableElbStates
          /\ ib = DefaultIb /\ secsvc = DefaultSecSvc /\ m365 = DefaultM365
       \/ /\ category = "imagebuilder"
          /\ ib \in IbStates
          /\ config = DefaultConfig /\ elb = DefaultElb
          /\ secsvc = DefaultSecSvc /\ m365 = DefaultM365
       \/ /\ category = "securityservices"
          /\ secsvc \in SecSvcStates
          /\ config = DefaultConfig /\ elb = DefaultElb
          /\ ib = DefaultIb /\ m365 = DefaultM365
       \/ /\ category = "m365.aadusers"
          /\ m365 \in M365States
          /\ config = DefaultConfig /\ elb = DefaultElb
          /\ ib = DefaultIb /\ secsvc = DefaultSecSvc

Init ==
    /\ InitEnv
    /\ cache = EmptyCache
    /\ fetches = NoFetches
    /\ phase = "PENDING"
    /\ checkIdx = 0
    /\ run = 1
    /\ yielded = <<>>
    /\ failed = {}
    /\ prevIds = {}
    /\ attempted = <<>>
    /\ clock = 0
    /\ lastCall = [fn |-> "none", ret |-> PyNone, exc |-> "none"]
    /\ nCalls = 0
    /\ printed = <<>>

StartTarget_keeping_cache ==
    /\ phase = "PENDING"
    /\ phase' = "ENUMERATING_CHECKS"
    /\ fetches' = NoFetches
    /\ yielded' = <<>>
    /\ failed' = {}
    /\ attempted' = <<>>
    /\ checkIdx' = 0
    /\ UNCHANGED <<envVars, cache, run, prevIds, clock, lastCall, nCalls, printed>>

(* PENDING -> ENUMERATING_CHECKS: a fresh cache for the traversal *)
StartTarget ==
    /\ phase = "PENDING"
    /\ phase' = "ENUMERATING_CHECKS"
    /\ cache' = EmptyCache
    /\ fetches' = NoFetches
    /\ yielded' = <<>>
    /\ failed' = {}
    /\ attempted' = <<>>
    /\ checkIdx' = 0
    /\ UNCHANGED <<envVars, run, prevIds, clock, lastCall, nCalls, printed>>

(* ENUMERATING_CHECKS -> RUNNING_CHECK(1) *)
EnumerateChecks ==
    /\ phase = "ENUMERATING_CHECKS"
    /\ phase' = "RUNNING_CHECK"
    /\ checkIdx' = 1
    /\ UNCHANGED <<envVars, cache, fetches, run, yielded, failed, prevIds, attempted,
                   clock, lastCall, nCalls, printed>>

AfterCheck(i) == IF i = NumChecks(category) THEN "COMPLETE" ELSE "RUNNING_CHECK"

(* RUNNING_CHECK(i): the check's generator is consumed to its end *)
CheckSucceeds ==
    /\ phase = "RUNNING_CHECK"
    /\ \E uuid \in 1..NumUuids :
         LET r == RunRegisteredCheck(category, checkIdx, cache, clock, uuid) IN
         /\ r.exc = "none"
         /\ cache' = r.cache
         /\ fetches' = AddFetches(fetches, r.calls)
         /\ yielded' = yielded \o r.yielded
         /\ printed' = printed \o r.printed
    /\ attempted' = Append(attempted, checkIdx)
    /\ phase' = AfterCheck(checkIdx)
    /\ checkIdx' = checkIdx + 1
    /\ clock' = clock + 1
    /\ UNCHANGED <<envVars, run, failed, prevIds, lastCall, nCalls>>

(* The failure boundary logs the cause: the exception and its text *)
FailureLog(i, r) == <<"check ", ToString(i), " failed: ", r.exc, ": ">> \o r.msg

(* RUNNING_CHECK(i): the generator raises; the failure boundary keeps what was
   yielded before, logs, and goes on to the next check *)
CheckFails ==
    /\ phase = "RUNNING_CHECK"
    /\ \E uuid \in 1..NumUuids :
         LET r == RunRegisteredCheck(category, checkIdx, cache, clock, uuid) IN
         /\ r.exc \notin {"none", "SystemExit"}
         /\ cache' = r.cache
         /\ fetches' = AddFetches(fetches, r.calls)
         /\ yielded' = yielded \o r.yielded
         /\ printed' = printed \o r.printed \o <<FailureLog(checkIdx, r)>>
    /\ failed' = failed \cup {checkIdx}
    /\ attempted' = Append(attempted, checkIdx)
    /\ phase' = AfterCheck(checkIdx)
    /\ checkIdx' = checkIdx + 1
    /\ clock' = clock + 1
    /\ UNCHANGED <<envVars, run, prevIds, lastCall, nCalls>>

(* RUNNING_CHECK(i): sys.exit(2) inside the check ends the process *)
CheckExits ==
    /\ phase = "RUNNING_CHECK"
    /\ \E uuid \in 1..NumUuids :
         LET r == RunRegisteredCheck(category, checkIdx, cache, clock, uuid) IN
         /\ r.exc = "SystemExit"
         /\ cache' = r.cache
         /\ fetches' = AddFetches(fetches, r.calls)
         /\ yielded' = yielded \o r.yielded
         /\ printed' = printed \o r.printed
    /\ phase' = "FATAL"
    /\ UNCHANGED <<envVars, checkIdx, run, failed, prevIds, attempted, clock,
                   lastCall, nCalls>>

(* The same target is traversed again, against unchanged provider state *)
RunAgain ==
    /\ phase = "COMPLETE"
    /\ run < MaxRuns
    /\ run' = run + 1
    /\ prevIds' = Ids(yielded)
    /\ phase' = "PENDING"
    /\ UNCHANGED <<envVars, cache, fetches, checkIdx, yielded, failed, attempted,
                   clock, lastCall, nCalls, printed>>

(* COMPLETE -> PENDING of the next target of the run *)
NextTarget ==
    /\ phase = "COMPLETE"
    /\ target < MaxTargets
    /\ target' = target + 1
    /\ phase' = "PENDING"
    /\ UNCHANGED <<category, config, elb, ib, secsvc, m365, cache, fetches, checkIdx, run,
                   yielded, failed, prevIds, attempted, clock, lastCall, nCalls, printed>>

Next == StartTarget \/ EnumerateChecks \/ CheckSucceeds \/ CheckFails \/ CheckExits
        \/ RunAgain

Spec == Init /\ [][Next]_vars

(* A running check ends: its generator returns, raises or exits, and the loop
   leaves RUNNING_CHECK(i) *)
CheckEnds ==
    /\ phase = "RUNNING_CHECK"
    /\ \/ checkIdx' = checkIdx + 1 /\ phase' \in {"RUNNING_CHECK", "COMPLETE"}
       \/ checkIdx' = checkIdx /\ phase' = "FATAL"

(* The run loop is one sequential loop: a traversal that can start starts, its
   checks are enumerated, and each running check ends *)
FairSpec ==
    Spec /\ WF_vars(StartTarget) /\ WF_vars(EnumerateChecks)
         /\ WF_<<phase, checkIdx>>(CheckEnds)

(* One run over the targets of the target list, one traversal each *)
TargetsNext == StartTarget \/ EnumerateChecks \/ CheckSucceeds \/ CheckFails \/ CheckExits
               \/ NextTarget

TargetsSpec == Init /\ [][TargetsNext]_vars

---------------------------------------------------------------------------
(* The helpers called directly, any number of times, on one cache *)
HelperInit ==
    /\ category = "helpers"
    /\ target = 1
    /\ \/ config \in Configs /\ elb = DefaultElb /\ m365 = DefaultM365
       \/ config = DefaultConfig /\ elb \in HealthyElbStates \cup FailingElbStates
          /\ Len(elb.lbs) <= 1 /\ m365 = DefaultM365
       \/ config = DefaultConfig /\ elb = DefaultElb /\ m365 \in M365States
          /\ Len(m365.pages) <= 1
    /\ ib = DefaultIb /\ secsvc = DefaultSecSvc
    /\ cache = EmptyCache
    /\ fetches = NoFetches
    /\ phase = "HELPERS"
    /\ checkIdx = 0
    /\ run = 1
    /\ yielded = <<>>
    /\ failed = {}
    /\ prevIds = {}
    /\ attempted = <<>>
    /\ clock = 0
    /\ lastCall = [fn |-> "none", ret |-> PyNone, exc |-> "none"]
    /\ nCalls = 0
    /\ printed = <<>>

Called(fn, r) ==
    /\ cache' = r.cache
    /\ fetches' = AddFetches(fetches, r.calls)
    /\ lastCall' = [fn |-> fn, ret |-> r.ret, exc |-> r.exc]
    /\ nCalls' = nCalls + 1
    /\ printed' = printed \o r.printed
    /\ phase' = IF r.exc = "SystemExit" THEN "FATAL" ELSE phase
    /\ UNCHANGED <<envVars, checkIdx, run, yielded, failed, prevIds, attempted, clock>>

CallGetShodanApiKey ==
    /\ phase = "HELPERS" /\ nCalls < MaxCalls
    /\ Called("get_shodan_api_key", get_shodan_api_key(cache, config))

CallDescribeClbs ==
    /\ phase = "HELPERS" /\ nCalls < MaxCalls
    /\ Called("describe_clbs", describe_clbs(cache, elb))

CallGetOauthToken ==
    /\ phase = "HELPERS" /\ nCalls < MaxCalls
    /\ Called("get_oauth_token", get_oauth_token(cache, m365))

CallGetAadUsersWithEnrichment ==
    /\ phase = "HELPERS" /\ nCalls < MaxCalls
    /\ Called("get_aad_users_with_enrichment", get_aad_users_with_enrichment(cache, m365))

(* What safe_requests.get of the dns.google url can come back with: the GET
   raising, a status other than 200, a 200 body without "Answer" (the name
   does not resolve), and a 200 body with up to MaxAnswers answers *)
AnswerData == {"52.1.2.3", "10.0.0.5", "127.0.0.1", "169.254.1.1", "clb.example.com."}

DnsResponses ==
    {[error |-> "ConnectionError", status_code |-> 0, hasAnswer |-> FALSE, Answer |-> <<>>],
     [error |-> "none", status_code |-> 500, hasAnswer |-> FALSE, Answer |-> <<>>],
     [error |-> "none", status_code |-> 200, hasAnswer |-> FALSE, Answer |-> <<>>]}
    \cup {[error |-> "none", status_code |-> 200, hasAnswer |-> TRUE, Answer |-> a] :
             a \in SeqsUpTo(AnswerData, MaxAnswers)}

CallGoogleDnsResolver ==
    /\ phase = "HELPERS" /\ nCalls < MaxCalls
    /\ \E resp \in DnsResponses :
         LET r == google_dns_resolver(resp) IN
         lastCall' = [fn |-> "google_dns_resolver", ret |-> r.ret, exc |-> r.exc, arg |-> resp]
    /\ nCalls' = nCalls + 1
    /\ UNCHANGED <<envVars, cache, fetches, phase, checkIdx, run, yielded, failed, prevIds,
                   attempted, clock, printed>>

HelperNext == CallGetShodanApiKey \/ CallDescribeClbs \/ CallGetOauthToken
              \/ CallGetAadUsersWithEnrichment \/ CallGoogleDnsResolver

HelperSpec == HelperInit /\ [][HelperNext]_vars

---------------------------------------------------------------------------
(* Properties *)
CachedListings == {"describe_load_balancers", "get_aad_users_with_enrichment"}
CachedKeys == CachedListings \cup {"get_oauth_token"}

FetchBehind(k) ==
    CASE k = "describe_load_balancers"       -> "elb.describe_load_balancers"
      [] k = "get_aad_users_with_enrichment" -> "graph/users"
      [] k = "get_oauth_token"               -> "oauth2/token"

ByCheck(findings, name) == SelectSeq(findings, LAMBDA f : f.check = name)

Attempted == {attempted[j] : j \in 1..Len(attempted)}

(* C1: within one traversal, the fetch behind every cached helper key that
   has been computed ran exactly once, however many checks asked for it. *)
C1_SingleFlightPerKey ==
    \A k \in CachedKeys : k \in DOMAIN cache => fetches[FetchBehind(k)] = 1

(* C2: once an empty listing is stored under a key, no later step of the
   traversal runs the fetch behind that key again. *)
C2_EmptyResultIsMemoized ==
    [][\A k \in CachedListings :
          (k \in DOMAIN cache /\ cache[k].l = <<>>)
              => fetches'[FetchBehind(k)] <= fetches[FetchBehind(k)]]_vars

(* C3: every yielded finding is FAILED/NEW/ACTIVE or PASSED/RESOLVED/ARCHIVED,
   never another combination of the three fields. *)
C3_LifecycleTriple ==
    \A k \in 1..Len(yielded) :
        LET f == yielded[k] IN
        \/ f.Compliance = "FAILED" /\ f.Workflow = "NEW" /\ f.RecordState = "ACTIVE"
        \/ f.Compliance = "PASSED" /\ f.Workflow = "RESOLVED" /\ f.RecordState = "ARCHIVED"

C3_Witness ==
    /\ category = "m365.aadusers"
    /\ phase = "COMPLETE"
    /\ \E k \in 1..Len(yielded) : yielded[k].Compliance = "FAILED"
    /\ \E k \in 1..Len(yielded) : yielded[k].Compliance = "PASSED"

(* C4: when the run ends with the fatal exit for an invalid
   credentials_location, no check has run and no finding was yielded. *)
C4_FatalBeforeAnyCheck ==
    phase = "FATAL" => attempted = <<>> /\ yielded = <<>>

(* C5: for a remote backend that answers with access denied, not found or a
   network failure, get_shodan_api_key returns None and raises nothing. *)
C5_BackendErrorIsUnavailable ==
    (/\ lastCall.fn = "get_shodan_api_key"
     /\ config.credentials_location \in RemoteLocations
     /\ config.shodan_api_key_value # ""
     /\ config.backend \in BackendErrors)
        => lastCall.exc = "none" /\ IsNone(lastCall.ret)

(* C6: with credentials_location = CONFIG_FILE and an empty secret value the
   run is never fatal, the resolver's stored result is None, no ELB.6 finding
   is yielded, and checks ELB.1 to ELB.5 run and yield their findings (one per
   load balancer for ELB.3, ELB.4 and ELB.5). *)
C6_EmptyConfigSecret ==
    (/\ category = "elasticloadbalancing"
     /\ config.credentials_location = "CONFIG_FILE"
     /\ config.shodan_api_key_value = "")
        => /\ phase # "FATAL"
           /\ ByCheck(yielded, "ELB.6") = <<>>
           /\ phase = "COMPLETE" =>
                /\ "get_shodan_api_key" \in DOMAIN cache
                /\ IsNone(cache["get_shodan_api_key"])
                /\ Attempted = 1..6
                /\ failed = {}
                /\ \A name \in {"ELB.3", "ELB.4", "ELB.5"} :
                       Len(ByCheck(yielded, name)) = Len(elb.lbs)
                /\ \A i \in 1..5 :
                       Ids(RunRegisteredCheck(category, i, cache, clock, 1).yielded)
                           \subseteq Ids(yielded)

C6_Witness ==
    /\ category = "elasticloadbalancing"
    /\ config.credentials_location = "CONFIG_FILE"
    /\ config.shodan_api_key_value = ""
    /\ phase = "COMPLETE"
    /\ Len(elb.lbs) = MaxLbs
    /\ \E i \in 1..Len(elb.lbs) :
           /\ elb.lbs[i].Scheme = "internet-facing"
           /\ ~IsNone(google_dns_resolver(elb.lbs[i].dns).ret)
    /\ ByCheck(yielded, "ELB.1") # <<>>

(* C7: once get_shodan_api_key has stored its result, None included, the
   configuration file was read once and the backend was asked at most once. *)
C7_ResolutionSingleFlight ==
    "get_shodan_api_key" \in DOMAIN cache
        => /\ fetches["toml"] <= 1
           /\ fetches["ssm.get_parameter"] <= 1
           /\ fetches["asm.get_secret_value"] <= 1

(* C8: whatever is raised inside one check ends that check alone: the run is
   never ended by a check, every check before the current one was attempted
   in registration order, and at the end of the traversal every check was
   attempted and each check that did not fail has its findings among the
   yielded ones. *)
C8_FailureIsolation ==
    /\ phase # "FATAL"
    /\ failed \subseteq Attempted
    /\ phase = "RUNNING_CHECK" => attempted = [j \in 1..(checkIdx - 1) |-> j]
    /\ phase = "COMPLETE" =>
           /\ attempted = [j \in 1..NumChecks(category) |-> j]
           /\ \A i \in Attempted \ failed :
                  Ids(RunRegisteredCheck(category, i, cache, clock, 1).yielded)
                      \subseteq Ids(yielded)

(* The isolation that does hold: the same statement for every exception other
   than the SystemExit of get_shodan_api_key, which alone ends the run. *)
C8_IsolationOfCaughtExceptions ==
    /\ phase = "FATAL" => config.credentials_location \notin validCredLocations
    /\ failed \subseteq Attempted
    /\ phase = "RUNNING_CHECK" => attempted = [j \in 1..(checkIdx - 1) |-> j]
    /\ phase = "COMPLETE" =>
           /\ attempted = [j \in 1..NumChecks(category) |-> j]
           /\ \A i \in Attempted \ failed :
                  Ids(RunRegisteredCheck(category, i, cache, clock, 1).yielded)
                      \subseteq Ids(yielded)

C8_Witness ==
    /\ category = "elasticloadbalancing"
    /\ phase = "COMPLETE"
    /\ failed = {3, 4, 5}
    /\ ByCheck(yielded, "ELB.1") # <<>>
    /\ ByCheck(yielded, "ELB.6") # <<>>

(* C9: when the attribute call of ELB.3 raises on the k-th load balancer, the
   findings of ELB.3 that were yielded are exactly those of load balancers
   1..k-1, in order, the check is recorded as failed, and the run goes on to
   ELB.4. *)
C9_PrefixBeforeFailure ==
    (/\ category = "elasticloadbalancing"
     /\ elb.listOutcome = "ok"
     /\ elb.attrFailAt >= 1
     /\ 3 \in Attempted)
        => /\ 3 \in failed
           /\ LET got == ByCheck(yielded, "ELB.3") IN
              /\ Len(got) = elb.attrFailAt - 1
              /\ \A j \in 1..Len(got) : got[j].ResourceId = clbArn(Target, elb.lbs[j])
           /\ phase \in {"RUNNING_CHECK", "COMPLETE", "PENDING", "ENUMERATING_CHECKS"}
           /\ phase = "RUNNING_CHECK" => checkIdx >= 4

C9_Witness ==
    /\ category = "elasticloadbalancing"
    /\ elb.attrFailAt = 3
    /\ phase = "RUNNING_CHECK"
    /\ checkIdx = 4
    /\ Len(ByCheck(yielded, "ELB.3")) = 2
    /\ 3 \in failed

(* C10: a second traversal of the same target against unchanged provider
   state ends with the same set of finding Ids as the traversal before it. *)
C10_StableIds ==
    (run >= 2 /\ phase = "COMPLETE") => Ids(yielded) = prevIds

C10_Witness ==
    /\ run = 2
    /\ phase = "COMPLETE"
    /\ category = "securityservices"
    /\ Len(yielded) = 3
    /\ yielded[1].GeneratorId # yielded[2].GeneratorId
    /\ yielded[1].CreatedAt > 1

(* The slug each check writes as the last component of its finding Id *)
CheckSlug(check) ==
    CASE check = "ELB.1" -> "classic-loadbalancer-secure-listener-check"
      [] check = "ELB.2" -> "classic-loadbalancer-tls12-policy-check"
      [] check = "ELB.3" -> "classic-loadbalancer-cross-zone-check"
      [] check = "ELB.4" -> "classic-loadbalancer-connection-draining-check"
      [] check = "ELB.5" -> "classic-loadbalancer-access-logging-check"
      [] check = "ELB.6" -> "classic-load-balancer-shodan-index-check"
      [] check = "ImageBuilder.1" -> "imagebuilder-pipeline-tests-enabled-check"
      [] check = "ImageBuilder.2" -> "imagebuilder-pipeline-tests-enabled-check"
      [] check = "SecSvcs.1" -> "security-services-iaa-enabled-check"
      [] check = "SecSvcs.2" -> "security-services-guardduty-enabled-check"
      [] check = "SecSvcs.3" -> "security-services-detective-enabled-check"
      [] check = "M365.AadUser.1" -> "azure-ad-user-mfa-registered-check"
      [] check = "M365.AadUser.2" -> "azure-ad-user-phishing-resistant-mfa-registered-check"
      [] check = "M365.AadUser.3" -> "azure-ad-user-identity-protection-risk-detections-check"
      [] check = "M365.AadUser.4" -> "azure-ad-user-identity-protection-risky-user-check"

(* C11: the Id of every yielded finding is the Id of its resource reference,
   a "/", and the slug of the check that yielded it, with nothing else. *)
C11_IdIsResourceSlashSlug ==
    \A k \in 1..Len(yielded) :
        yielded[k].Id = yielded[k].ResourceId \o "/" \o CheckSlug(yielded[k].check)

MinimumFieldSet ==
    {"Id", "Severity.Label", "Compliance.Status", "Workflow.Status", "RecordState",
     "Resources.Type", "Resources.Id", "CreatedAt", "UpdatedAt", "Description",
     "Remediation.Recommendation.Text", "Remediation.Recommendation.Url",
     "Compliance.RelatedRequirements"}

(* C12: every yielded finding carries every field of the minimum field set,
   the relatedRequirements list included. *)
C12_MinimumFieldSet ==
    \A k \in 1..Len(yielded) : MinimumFieldSet \subseteq yielded[k].Keys

(* The value each cache key holds when it was computed for target t *)
FetchedFor(k, t) ==
    CASE k = "describe_load_balancers" -> PyList(ElbOf(elb, t).lbs)
      [] k = "get_oauth_token" -> PyStr(M365Of(m365, t).token)
      [] k = "get_aad_users_with_enrichment" ->
            PyList(check_user_mfa_and_risk(M365Of(m365, t), ListUsers(M365Of(m365, t).pages)))

(* The resource ids of the load balancers and users target t holds *)
ResourceIdsOf(t) ==
    {clbArn(TargetAt(t), ElbOf(elb, t).lbs[i]) : i \in 1..Len(ElbOf(elb, t).lbs)}
    \cup UNION {{UserResource(TargetAt(t), M365Of(m365, t).pages[i].value[j])
                    : j \in 1..Len(M365Of(m365, t).pages[i].value)}
                : i \in 1..Len(m365.pages)}

(* C13: while the checks of a target run, every value in the cache is the one
   fetched for that target, and every finding of a check that reads the cache
   is about a load balancer or a user of that target. *)
C13_NoCrossTargetCache ==
    phase \in {"RUNNING_CHECK", "COMPLETE"} =>
        /\ \A k \in CachedKeys : k \in DOMAIN cache => cache[k] = FetchedFor(k, target)
        /\ category \in {"elasticloadbalancing", "m365.aadusers"} =>
               \A k \in 1..Len(yielded) : yielded[k].ResourceId \in ResourceIdsOf(target)

C13_Witness ==
    /\ target = 2
    /\ phase = "COMPLETE"
    /\ category = "elasticloadbalancing"
    /\ "describe_load_balancers" \in DOMAIN cache
    /\ Len(cache["describe_load_balancers"].l) = 2
    /\ Len(yielded) >= 2

(* The resource ids of everything target t holds: its load balancers and
   users, its image pipelines and recipes, and its account *)
AllResourceIdsOf(t) ==
    ResourceIdsOf(t)
    \cup {IbOf(ib, t).pipelines[i].arn : i \in 1..Len(ib.pipelines)}
    \cup {IbOf(ib, t).recipes[i].arn : i \in 1..Len(ib.recipes)}
    \cup {AccountResource(TargetAt(t))}

(* C14: every finding yielded while the checks of a target run is about a resource
   of that target: the data behind it was read with the context passed into
   the check, not with a client or an account/region fixed at import. *)
C14_NoAmbientContext ==
    phase \in {"RUNNING_CHECK", "COMPLETE", "FATAL"} =>
        \A k \in 1..Len(yielded) : yielded[k].ResourceId \in AllResourceIdsOf(target)

(* C15: the ELB.1 findings of a traversal are, load balancer by load balancer
   and listener by listener, PASSED for an HTTPS or SSL listener and FAILED for
   any other protocol of an internet-facing load balancer, and nothing for a
   load balancer that is not internet-facing. *)
C15_SecureListenerVerdict ==
    (category = "elasticloadbalancing" /\ 1 \in Attempted \ failed) =>
        LET lbs == ElbOf(elb, target).lbs
            expected == Flatten([i \in 1..Len(lbs) |->
                IF lbs[i].Scheme = "internet-facing"
                THEN [j \in 1..Len(lbs[i].ListenerDescriptions) |->
                        [ResourceId |-> clbArn(Target, lbs[i]),
                         Compliance |-> IF lbs[i].ListenerDescriptions[j].Protocol
                                              \in {"HTTPS", "SSL"}
                                        THEN "PASSED" ELSE "FAILED"]]
                ELSE <<>>])
            got == ByCheck(yielded, "ELB.1")
        IN [k \in 1..Len(got) |-> [ResourceId |-> got[k].ResourceId,
                                   Compliance |-> got[k].Compliance]] = expected

(* C16: the checks attempted so far are 1, 2, ... in registration order, each
   once, COMPLETE is entered with every check of the category attempted, and
   every traversal that is PENDING eventually reaches COMPLETE. *)
C16_TraversalReachesComplete ==
    /\ [](/\ attempted = [j \in 1..Len(attempted) |-> j]
          /\ phase = "RUNNING_CHECK" => Len(attempted) = checkIdx - 1
          /\ phase = "COMPLETE" => Len(attempted) = NumChecks(category))
    /\ (phase = "PENDING") ~> (phase = "COMPLETE")

(* What does hold: the same order of attempts, and every traversal ends, in
   COMPLETE or in the exit of get_shodan_api_key on an invalid
   credentials_location. *)
C16_OrderAndTermination ==
    /\ [](/\ attempted = [j \in 1..Len(attempted) |-> j]
          /\ phase = "RUNNING_CHECK" => Len(attempted) = checkIdx - 1
          /\ phase = "COMPLETE" => Len(attempted) = NumChecks(category)
          /\ phase = "FATAL" => config.credentials_location \notin validCredLocations)
    /\ (phase = "PENDING") ~> (phase \in {"COMPLETE", "FATAL"})

---------------------------------------------------------------------------
(* The parts of the messages printed or logged so far *)
PrintedParts == UNION {{printed[k][j] : j \in 1..Len(printed[k])} : k \in 1..Len(printed)}

(* C17: the resolved Shodan API key is in no message the program prints or
   logs, on the success path and on every error path of get_shodan_api_key
   and of public_clb_shodan_check *)
C17_SecretNeverPrinted == SecretValue \notin PrintedParts

(* The messages of credential resolution itself never hold the key *)
C17_ResolverPrintsNoSecret ==
    \A c \in Configs :
        LET r == get_shodan_api_key(EmptyCache, c) IN
        \A k \in 1..Len(r.printed) : \A j \in 1..Len(r.printed[k]) :
            r.printed[k][j] # SecretValue

---------------------------------------------------------------------------
(* The users of a chain of pages, page after page *)
RECURSIVE UsersOfPages(_)
UsersOfPages(pages) ==
    IF pages = <<>> THEN <<>> ELSE Head(pages).value \o UsersOfPages(Tail(pages))

WellFormedChain(pages) == \A i \in 1..Len(pages) : pages[i].hasValue

(* C18: for every chain of listing pages linked by "@odata.nextLink" (one,
   two, three or more pages, each with its "value"), the listing of
   get_aad_users_with_enrichment holds each user of each page exactly once,
   in page order, and it is this list that is enriched and returned *)
C18_PagingCollectsEveryUserOnce ==
    WellFormedChain(m365.pages) =>
        /\ ListUsers(m365.pages) = UsersOfPages(m365.pages)
        /\ "get_aad_users_with_enrichment" \in DOMAIN cache =>
              cache["get_aad_users_with_enrichment"] =
                  PyList(check_user_mfa_and_risk(m365, UsersOfPages(m365.pages)))

(* A chain of three pages, each with users, has been listed and enriched *)
C18_Witness ==
    /\ category = "m365.aadusers"
    /\ Len(m365.pages) = 3
    /\ \A i \in 1..3 : m365.pages[i].hasValue /\ m365.pages[i].value # <<>>
    /\ "get_aad_users_with_enrichment" \in DOMAIN cache
    /\ Len(cache["get_aad_users_with_enrichment"].l) >= 2
    /\ phase = "COMPLETE"

---------------------------------------------------------------------------
(* The listing breaks mid-stream: a page after the first lacks "value" *)
BrokenMidStream(pages) ==
    /\ pages[1].hasValue
    /\ \E i \in 2..Len(pages) : ~pages[i].hasValue

(* C19: when a page of the listing lacks "value", every check that asked for
   the users fails at the failure boundary, and no list of users is stored in
   the cache *)
C19_PagingErrorFailsTheCheck ==
    (category = "m365.aadusers" /\ BrokenMidStream(m365.pages)) =>
        /\ \A k \in 1..Len(attempted) : attempted[k] \in failed
        /\ "get_aad_users_with_enrichment" \notin DOMAIN cache

---------------------------------------------------------------------------
(* The risk detections of a user that are active with Medium or High level *)
ActiveMediumOrHigh(user) ==
    SelectSeq(user.identityProtectionRiskDetections,
              LAMBDA risk : risk.riskLevel \in {"medium", "high"}
                            /\ risk.riskState \in triggeringRiskStates)

(* C20: M365.AadUser.3 yields, user by user, FAILED exactly for the users
   with an active risk detection of Medium or High level and PASSED for the
   others; a FAILED finding is CRITICAL when one of those detections is
   confirmedCompromised and HIGH otherwise *)
C20_RiskDetectionVerdict ==
    (category = "m365.aadusers" /\ 3 \in Attempted \ failed) =>
        LET users == cache["get_aad_users_with_enrichment"].l
            got == ByCheck(yielded, "M365.AadUser.3")
        IN /\ Len(got) = Len(users)
           /\ \A k \in 1..Len(users) :
                LET risks == ActiveMediumOrHigh(users[k]) IN
                /\ got[k].ResourceId = UserResource(Target, users[k])
                /\ got[k].Compliance = IF risks # <<>> THEN "FAILED" ELSE "PASSED"
                /\ got[k].Compliance = "FAILED" =>
                      got[k].Severity =
                          IF \E j \in 1..Len(risks) : risks[j].riskState = "confirmedCompromised"
                          THEN "CRITICAL" ELSE "HIGH"

(* What the code yields: the same with the levels hidden and
   unknownFutureValue counted as triggering *)
C20_VerdictOverTriggeringLevels ==
    (category = "m365.aadusers" /\ 3 \in Attempted \ failed) =>
        LET users == cache["get_aad_users_with_enrichment"].l
            got == ByCheck(yielded, "M365.AadUser.3")
        IN /\ Len(got) = Len(users)
           /\ \A k \in 1..Len(users) :
                LET risks == SelectSeq(users[k].identityProtectionRiskDetections,
                                 LAMBDA risk : risk.riskLevel \in triggeringRiskLevels
                                               /\ risk.riskState \in triggeringRiskStates) IN
                /\ got[k].ResourceId = UserResource(Target, users[k])
                /\ got[k].Compliance = IF risks # <<>> THEN "FAILED" ELSE "PASSED"
                /\ got[k].Compliance = "FAILED" =>
                      got[k].Severity =
                          IF \E j \in 1..Len(risks) : risks[j].riskState = "confirmedCompromised"
                          THEN "CRITICAL" ELSE "HIGH"

---------------------------------------------------------------------------
(* One verdict per load balancer of the listing: FAILED when the attribute is
   not enabled, PASSED when it is *)
AttributeVerdicts(lbs, attribute) ==
    [i \in 1..Len(lbs) |->
        [ResourceId |-> clbArn(Target, lbs[i]),
         Compliance |-> IF lbs[i][attribute] THEN "PASSED" ELSE "FAILED"]]

Verdicts(findings) ==
    [k \in 1..Len(findings) |-> [ResourceId |-> findings[k].ResourceId,
                                  Compliance |-> findings[k].Compliance]]

(* C21: each of ELB.3, ELB.4 and ELB.5, once it has run to its end, has
   yielded exactly one finding per load balancer of the cached listing, in
   listing order, FAILED exactly when the attribute's Enabled is false and
   PASSED exactly when it is true *)
C21_OneAttributeFindingPerLb ==
    category = "elasticloadbalancing" =>
        LET lbs == ElbOf(elb, target).lbs IN
        /\ 3 \in Attempted \ failed =>
              Verdicts(ByCheck(yielded, "ELB.3")) =
                  AttributeVerdicts(lbs, "CrossZoneLoadBalancing")
        /\ 4 \in Attempted \ failed =>
              Verdicts(ByCheck(yielded, "ELB.4")) =
                  AttributeVerdicts(lbs, "ConnectionDraining")
        /\ 5 \in Attempted \ failed =>
              Verdicts(ByCheck(yielded, "ELB.5")) =
                  AttributeVerdicts(lbs, "AccessLog")

(* The three checks have run over a listing of MaxLbs load balancers, some
   with the attributes enabled and some without *)
C21_Witness ==
    /\ category = "elasticloadbalancing"
    /\ phase = "COMPLETE"
    /\ {3, 4, 5} \subseteq Attempted \ failed
    /\ Len(elb.lbs) = MaxLbs
    /\ \E i, j \in 1..Len(elb.lbs) :
          /\ elb.lbs[i].CrossZoneLoadBalancing /\ ~elb.lbs[j].CrossZoneLoadBalancing
          /\ elb.lbs[i].AccessLog /\ ~elb.lbs[j].AccessLog
    /\ Len(ByCheck(yielded, "ELB.3")) = MaxLbs
    /\ Len(ByCheck(yielded, "ELB.5")) = MaxLbs

---------------------------------------------------------------------------
(* The first answer, in response order, that is an address and is neither
   private nor loopback nor link-local; None when there is none *)
RECURSIVE FirstExternalAnswer(_)
FirstExternalAnswer(answers) ==
    IF answers = <<>> THEN PyNone
    ELSE IF AddrClass(Head(answers)) \notin {"private", "loopback", "link_local",
                                              "AddressValueError"}
    THEN PyStr(Head(answers))
    ELSE FirstExternalAnswer(Tail(answers))

(* C22: google_dns_resolver never raises; it returns the first answer that
   is neither private nor loopback nor link-local, and None when the request
   failed or the response holds no such answer *)
C22_ResolverReturnsExternalOrNone ==
    lastCall.fn = "google_dns_resolver" =>
        /\ lastCall.exc = "none"
        /\ lastCall.ret =
              IF lastCall.arg.error = "none" /\ lastCall.arg.status_code = 200
                 /\ lastCall.arg.hasAnswer
              THEN FirstExternalAnswer(lastCall.arg.Answer)
              ELSE PyNone

(* What does hold: whatever is returned is an external address, the first of
   the response, and a response with an "Answer" never makes the call raise *)
C22_NeverAnInternalAddress ==
    lastCall.fn = "google_dns_resolver" =>
        /\ ~IsNone(lastCall.ret) =>
              /\ AddrClass(lastCall.ret.s) = "public"
              /\ lastCall.ret = FirstExternalAnswer(lastCall.arg.Answer)
        /\ (lastCall.arg.error = "none" /\ (lastCall.arg.status_code # 200 \/ lastCall.arg.hasAnswer))
              => lastCall.exc = "none"

---------------------------------------------------------------------------
(* C23: the findings of one traversal have pairwise different Ids, so no two
   findings with one Id differ in compliance status *)
C23_UniqueIdsPerRun ==
    \A k, j \in 1..Len(yielded) : yielded[k].Id = yielded[j].Id => k = j

(* The weaker half alone: two findings with one Id agree on the status *)
C23_OneStatusPerId ==
    \A k, j \in 1..Len(yielded) :
        yielded[k].Id = yielded[j].Id => yielded[k].Compliance = yielded[j].Compliance

---------------------------------------------------------------------------
M365CheckNames == <<"M365.AadUser.1", "M365.AadUser.2", "M365.AadUser.3", "M365.AadUser.4">>

(* C24: each m365.aadusers check that has run to its end has yielded exactly
   one finding for every user of the tenant's listing, in listing order, a
   user whose authentication-methods request did not return 200 included *)
C24_OneFindingPerListedUser ==
    (category = "m365.aadusers" /\ WellFormedChain(m365.pages)) =>
        LET users == UsersOfPages(M365Of(m365, target).pages) IN
        \A i \in Attempted \ failed :
            LET got == ByCheck(yielded, M365CheckNames[i]) IN
            /\ Len(got) = Len(users)
            /\ \A k \in 1..Len(users) : got[k].ResourceId = UserResource(Target, users[k])

(* What does hold: one finding for every user whose authentication-methods
   request returned 200, and none for the others *)
C24_OneFindingPerEnrichedUser ==
    (category = "m365.aadusers" /\ WellFormedChain(m365.pages)) =>
        LET users == SelectSeq(UsersOfPages(M365Of(m365, target).pages),
                               LAMBDA u : u.authStatus = 200) IN
        \A i \in Attempted \ failed :
            LET got == ByCheck(yielded, M365CheckNames[i]) IN
            /\ Len(got) = Len(users)
            /\ \A k \in 1..Len(users) : got[k].ResourceId = UserResource(Target, users[k])

---------------------------------------------------------------------------
(* The tenant's risk detections that the check counts as active, for the user
   a finding is about *)
ActiveDetectionsOf(m, resourceId) ==
    SelectSeq(m.riskDetections,
              LAMBDA risk : /\ UserResource(Target, [id |-> risk.userId]) = resourceId
                            /\ risk.riskLevel \in triggeringRiskLevels
                            /\ risk.riskState \in triggeringRiskStates)

(* C25: a PASSED finding of M365.AadUser.3 is yielded only when the tenant's
   risk detections were retrieved (status 200) and the user has no active
   detection among them *)
C25_PassedOnlyWhenDetectionsRetrieved ==
    \A k \in 1..Len(yielded) :
        (yielded[k].check = "M365.AadUser.3" /\ yielded[k].Compliance = "PASSED") =>
            /\ M365Of(m365, target).riskDetectionsStatus = 200
            /\ ActiveDetectionsOf(M365Of(m365, target), yielded[k].ResourceId) = <<>>

(* What does hold: with the detections retrieved, PASSED means no active one *)
C25_PassedMeansNoneActiveWhenRetrieved ==
    \A k \in 1..Len(yielded) :
        (/\ yielded[k].check = "M365.AadUser.3" /\ yielded[k].Compliance = "PASSED"
         /\ M365Of(m365, target).riskDetectionsStatus = 200) =>
            ActiveDetectionsOf(M365Of(m365, target), yielded[k].ResourceId) = <<>>

---------------------------------------------------------------------------
(* C26: while the token request fails, every check that ran has failed at
   the failure boundary, the cache holds neither "get_oauth_token" nor
   "get_aad_users_with_enrichment", and the token request was attempted once
   by each check that ran *)
C26_FailedTokenIsNotCached ==
    (category = "m365.aadusers" /\ m365.tokenStatus # 200) =>
        /\ Attempted \subseteq failed
        /\ "get_oauth_token" \notin DOMAIN cache
        /\ "get_aad_users_with_enrichment" \notin DOMAIN cache
        /\ fetches["oauth2/token"] = Len(attempted)
        /\ fetches["graph/users"] = 0

(* The four checks of a traversal have each asked for the token and failed *)
C26_Witness ==
    /\ category = "m365.aadusers"
    /\ m365.tokenStatus # 200
    /\ phase = "COMPLETE"
    /\ failed = {1, 2, 3, 4}
    /\ fetches["oauth2/token"] = 4
    /\ yielded = <<>>

====
